---- MODULE Spec2Model ----
(***************************************************************************)
(* The region quadtree of trenchy_quadtree (src/src/quadtree.rs) with the  *)
(* three shapes of src/src/quad_objects.rs, as a state machine over the    *)
(* index operations: construction, clear, insert, rectangle query and      *)
(* neighbour query (Spec), and as the main loop of src/src/main_loop.rs,   *)
(* frame after frame (FrameSpec).                                          *)
(*                                                                         *)
(* Rc<dyn QuadObject> handles are modelled as 1-based positions ("refs")   *)
(* in object_array; the object behind a ref is looked up when an overlap   *)
(* is evaluated, as a shared handle is dereferenced in the source.         *)
(* Option<T> is a sequence of length 0 (None) or 1 (Some).                 *)
(***************************************************************************)
EXTENDS Integers, Sequences, FiniteSets, TLC

\* ------------------------------------------------------------------------
\* Bounds of the model
\* ------------------------------------------------------------------------
\* At most this many objects are ever created.
MaxObjects == 5
\* The call stack holds this many nested TreeNode::insert_object frames; one
\* more aborts the process (Rust's stack overflow).  Every terminating
\* insertion over the regions below needs fewer than 14.
StackLimit == 16
\* The main loop is followed for this many frames.
MaxFrames == 3

\* ------------------------------------------------------------------------
\* Program constants
\* ------------------------------------------------------------------------
MAX_OBJECTS_PER_NODE == 4
\* The radius both callers pass to query_neighbours_and_condition.
NEIGHBOUR_RADIUS == 10
\* Boid::update: the edges of the bounded world and the positions an agent
\* that left through an edge is put back to.
WORLD_HIGH == 525
WORLD_LOW == 25
REENTRY_LOW == 26
REENTRY_HIGH == 524
\* Boid::update_movement: the divisor of the heading difference.
HEADING_DIVISOR == 5

\* ------------------------------------------------------------------------
\* f32
\* ------------------------------------------------------------------------
\* An agent's position is an f32; the model keeps it in hundredths of a unit.
PositionScale == 100
\* An agent's heading is an f32 of radians; the model keeps it in twentieths
\* of a turn (pi/10), so that a quarter turn is this many heading units.
QuarterTurn == 5

VARIABLES
    outer,           \* the arguments QuadTree::new was called with
    quadtree,        \* the QuadTree struct: four quadrant nodes and surface
    object_array,    \* the owning collection, Vec<Rc<dyn QuadObject>>
    inserted,        \* how many objects of object_array were inserted
                     \* (in order) since the index was last emptied
    cleared,         \* TRUE once clear() emptied the index (FALSE: new())
    ret,             \* the return value of the last call, if it was a query
    rebuild_stats,   \* the statistics drawn after the last (up to two)
                     \* rebuilds of the present object set
    stack_overflow,  \* the process was aborted by a stack overflow
    input_store,     \* the InputStore struct
    pc,              \* where the main loop stands: "handle_input", or the
                     \* statement of update() that runs next
    advanced,        \* how many objects update() has advanced in this frame
    operated,        \* how many objects the operation loop of update() has
                     \* been through in this frame
    frame            \* how many frames are done

vars == <<outer, quadtree, object_array, inserted, cleared, ret, rebuild_stats,
          stack_overflow, input_store, pc, advanced, operated, frame>>

\* What the main loop adds to the state of the index operations.
loop_vars == <<input_store, pc, advanced, operated, frame>>

\* ------------------------------------------------------------------------
\* Option<T>, integer helpers
\* ------------------------------------------------------------------------
None == <<>>
Some(v) == <<v>>
is_none(opt) == opt = <<>>
unwrap(opt) == opt[1]

\* Rust's integer division truncates toward zero.
div2(n) ==
    IF n >= 0 THEN n \div 2 ELSE -((-n) \div 2)

min(a, b) == IF a < b THEN a ELSE b
max(a, b) == IF a > b THEN a ELSE b

contains(seq, v) == \E k \in 1..Len(seq) : seq[k] = v

\* ------------------------------------------------------------------------
\* TreeSurface
\* ------------------------------------------------------------------------
from_size(x0, y0, x1, y1) ==
    [x0 |-> x0, y0 |-> y0, x1 |-> x1, y1 |-> y1]

mx(s) == div2(s.x1 - s.x0) + s.x0
my(s) == div2(s.y1 - s.y0) + s.y0

\* ------------------------------------------------------------------------
\* Shapes
\* ------------------------------------------------------------------------
\* `x as f32`: a whole number of units, in hundredths.
as_f32(n) == n * PositionScale

\* `v as i32`: the fraction is cut off, toward zero.
as_i32(v) ==
    IF v >= 0 THEN v \div PositionScale ELSE -((-v) \div PositionScale)

\* sin of a heading in the first quarter turn, in hundredths.
sin_of_first_quarter ==
    <<0, 31, 59, 81, 95, 100>>

\* f32::sin of a heading, in hundredths.
sin(facing) ==
    LET f == facing % (4 * QuarterTurn)
    IN  IF f <= QuarterTurn THEN sin_of_first_quarter[f + 1]
        ELSE IF f <= 2 * QuarterTurn THEN sin_of_first_quarter[2 * QuarterTurn - f + 1]
        ELSE IF f <= 3 * QuarterTurn THEN -sin_of_first_quarter[f - 2 * QuarterTurn + 1]
        ELSE -sin_of_first_quarter[4 * QuarterTurn - f + 1]

\* f32::cos of a heading, in hundredths.
cos(facing) == sin(facing + QuarterTurn)

\* f32 division of a heading by a whole number, cut to the heading grid as
\* Rust cuts an integer quotient: toward zero.
heading_div(a, n) ==
    IF a >= 0 THEN a \div n ELSE -((-a) \div n)

Boid_new(id, x, y, facing) ==
    [kind |-> "Boid", id |-> id, x |-> as_f32(x), y |-> as_f32(y),
     facing |-> facing]

Rectangle_new(id, x, y, width, height) ==
    [kind |-> "Rectangle", id |-> id,
     x0 |-> IF width < 0 THEN x + width ELSE x,
     y0 |-> IF height < 0 THEN y + height ELSE y,
     x1 |-> IF width < 0 THEN x ELSE x + width,
     y1 |-> IF height < 0 THEN y ELSE y + height]

Circle_new(id, x, y, r) ==
    [kind |-> "Circle", id |-> id, x |-> x, y |-> y, radius |-> r]

to_tree_surface(rect) ==
    [x0 |-> rect.x0, y0 |-> rect.y0, x1 |-> rect.x1, y1 |-> rect.y1]

Boid_center(o) == <<as_i32(o.x), as_i32(o.y)>>
Rectangle_center(o) ==
    <<div2(o.x1 - o.x0) + o.x0, div2(o.y1 - o.y0) + o.y0>>
Circle_center(o) == <<o.x, o.y>>

center(o) ==
    CASE o.kind = "Boid" -> Boid_center(o)
      [] o.kind = "Rectangle" -> Rectangle_center(o)
      [] o.kind = "Circle" -> Circle_center(o)

\* Closed intervals: a point on an edge is inside.
Boid_is_overlap(o, surface) ==
    LET c == Boid_center(o)
    IN  /\ surface.x0 <= c[1] /\ c[1] <= surface.x1
        /\ surface.y0 <= c[2] /\ c[2] <= surface.y1

\* Open intervals: boxes that only touch do not overlap.
Rectangle_is_overlap(o, surface) ==
    /\ o.x0 < surface.x1
    /\ o.x1 > surface.x0
    /\ o.y0 < surface.y1
    /\ o.y1 > surface.y0

Circle_is_overlap(o, surface) ==
    LET xn == max(surface.x0, min(o.x, surface.x1))
        yn == max(surface.y0, min(o.y, surface.y1))
        dx == xn - o.x
        dy == yn - o.y
    IN  (dx * dx + dy * dy) <= o.radius * o.radius

is_overlap(o, surface) ==
    CASE o.kind = "Boid" -> Boid_is_overlap(o, surface)
      [] o.kind = "Rectangle" -> Rectangle_is_overlap(o, surface)
      [] o.kind = "Circle" -> Circle_is_overlap(o, surface)

\* Rectangle::is_rect_overlap: the OBJECT's predicate against the rectangle.
is_rect_overlap(rect, o) == is_overlap(o, to_tree_surface(rect))

\* One coordinate after Boid::update's bounds checking: the two tests of a
\* coordinate run one after the other.
bounds_checking(v) ==
    LET high == IF v > as_f32(WORLD_HIGH) THEN as_f32(REENTRY_LOW) ELSE v
    IN  IF high < as_f32(WORLD_LOW) THEN as_f32(REENTRY_HIGH) ELSE high

\* Boid::update: one step along the heading (x by sin, y by cos), then the
\* bounds checking.
Boid_update(o) ==
    [o EXCEPT !.x = bounds_checking(o.x + sin(o.facing)),
              !.y = bounds_checking(o.y + cos(o.facing))]

\* QuadObject::update: only an agent moves.
update(o) ==
    IF o.kind = "Boid" THEN Boid_update(o) ELSE o

\* QuadObject::get_boid
get_boid(o) ==
    IF o.kind = "Boid" THEN Some(o) ELSE None

\* Boid::update_movement(rhs): the heading moves toward that of rhs by a
\* fifth of the difference, if rhs is an agent.
Boid_update_movement(o, rhs) ==
    IF is_none(get_boid(rhs))
    THEN o
    ELSE [o EXCEPT !.facing =
              o.facing + heading_div(unwrap(get_boid(rhs)).facing - o.facing,
                                     HEADING_DIVISOR)]

\* QuadObject::update_movement: a rectangle or a circle ignores it.
update_movement(o, rhs) ==
    IF o.kind = "Boid" THEN Boid_update_movement(o, rhs) ELSE o

\* ------------------------------------------------------------------------
\* Object bounds to grid coordinates
\* ------------------------------------------------------------------------
\* The four cells without the `- 1` on the far edge of the low cells.
grid_cell_keeping_split_line(surface, i) ==
    CASE i = 0 -> from_size(surface.x0, surface.y0, mx(surface), my(surface))
      [] i = 1 -> from_size(mx(surface), surface.y0, surface.x1, my(surface))
      [] i = 2 -> from_size(surface.x0, my(surface), mx(surface), surface.y1)
      [] i = 3 -> from_size(mx(surface), my(surface), surface.x1, surface.y1)

\* The four cells of the midpoint split, index 0..3 = TL, TR, BL, BR.
grid_cell(surface, i) ==
    CASE i = 0 -> from_size(surface.x0, surface.y0, mx(surface) - 1, my(surface) - 1)
      [] i = 1 -> from_size(mx(surface), surface.y0, surface.x1, my(surface) - 1)
      [] i = 2 -> from_size(surface.x0, my(surface), mx(surface) - 1, surface.y1)
      [] i = 3 -> from_size(mx(surface), my(surface), surface.x1, surface.y1)

\* assign_object_to_grid with `else if` for `if`: the first cell only.
assign_object_to_grid_first_only(surface, object) ==
    LET all == SelectSeq(<<0, 1, 2, 3>>,
                         LAMBDA i : is_overlap(object, grid_cell(surface, i)))
    IN  IF all = <<>> THEN all ELSE <<all[1]>>

assign_object_to_grid(surface, object) ==
    SelectSeq(<<0, 1, 2, 3>>, LAMBDA i : is_overlap(object, grid_cell(surface, i)))

\* ------------------------------------------------------------------------
\* TreeNode
\* ------------------------------------------------------------------------
TreeNode_new(depth, ox, oy, ix, iy) ==
    [depth |-> depth,
     surface |-> [x0 |-> ox, y0 |-> oy, x1 |-> ix, y1 |-> iy],
     objects |-> Some(<<>>),
     leaves |-> <<None, None, None, None>>]

\* What an insertion yields when its recursion exhausts the call stack: no
\* node (a node's depth is at least 1).
Overflowed ==
    [depth |-> 0, surface |-> from_size(0, 0, 0, 0), objects |-> None,
     leaves |-> <<None, None, None, None>>]

RECURSIVE TreeNode_insert_object(_, _, _)
RECURSIVE switch_object_to_leaves(_, _, _)
RECURSIVE insert_each(_, _, _)

\* leaf after leaf.insert_object(ref) for every ref of refs, in order.
insert_each(leaf, refs, objs) ==
    IF refs = <<>>
    THEN leaf
    ELSE TreeNode_insert_object(
             insert_each(leaf, SubSeq(refs, 1, Len(refs) - 1), objs),
             refs[Len(refs)], objs)

\* The refs of bucket whose object is assigned to grid index i of surface.
assigned_to(bucket, surface, i, objs) ==
    SelectSeq(bucket,
              LAMBDA ref : contains(assign_object_to_grid(surface, objs[ref]), i))

\* switch_object_to_leaves without its last line, `self.objects = None`:
\* the bucket is emptied and kept.
switch_object_to_leaves_keeping_bucket(node, extra_object, objs) ==
    LET s == node.surface
        objects == Append(unwrap(node.objects), extra_object)
        leaf0 == insert_each(TreeNode_new(node.depth + 1, s.x0, s.y0, mx(s) - 1, my(s) - 1),
                             assigned_to(objects, s, 0, objs), objs)
        leaf1 == insert_each(TreeNode_new(node.depth + 1, mx(s), s.y0, s.x1, my(s) - 1),
                             assigned_to(objects, s, 1, objs), objs)
        leaf2 == insert_each(TreeNode_new(node.depth + 1, s.x0, my(s), mx(s) - 1, s.y1),
                             assigned_to(objects, s, 2, objs), objs)
        leaf3 == insert_each(TreeNode_new(node.depth + 1, mx(s), my(s), s.x1, s.y1),
                             assigned_to(objects, s, 3, objs), objs)
    IN  IF leaf0 = Overflowed \/ leaf1 = Overflowed
           \/ leaf2 = Overflowed \/ leaf3 = Overflowed
        THEN Overflowed
        ELSE [node EXCEPT !.leaves = <<Some(leaf0), Some(leaf1), Some(leaf2), Some(leaf3)>>,
                          !.objects = Some(<<>>)]

\* The four leaves are made, the extra object joins the bucket, and every
\* object of the bucket, in order, is inserted into each leaf its grid
\* indices name (a leaf so receives its objects in bucket order, whatever
\* the other leaves receive); then the bucket is given up.
switch_object_to_leaves(node, extra_object, objs) ==
    LET s == node.surface
        objects == Append(unwrap(node.objects), extra_object)
        leaf0 == insert_each(TreeNode_new(node.depth + 1, s.x0, s.y0, mx(s) - 1, my(s) - 1),
                             assigned_to(objects, s, 0, objs), objs)
        leaf1 == insert_each(TreeNode_new(node.depth + 1, mx(s), s.y0, s.x1, my(s) - 1),
                             assigned_to(objects, s, 1, objs), objs)
        leaf2 == insert_each(TreeNode_new(node.depth + 1, s.x0, my(s), mx(s) - 1, s.y1),
                             assigned_to(objects, s, 2, objs), objs)
        leaf3 == insert_each(TreeNode_new(node.depth + 1, mx(s), my(s), s.x1, s.y1),
                             assigned_to(objects, s, 3, objs), objs)
    IN  IF leaf0 = Overflowed \/ leaf1 = Overflowed
           \/ leaf2 = Overflowed \/ leaf3 = Overflowed
        THEN Overflowed
        ELSE [node EXCEPT !.leaves = <<Some(leaf0), Some(leaf1), Some(leaf2), Some(leaf3)>>,
                          !.objects = None]

\* TreeNode::insert_object that takes a bucket for full one object early.
TreeNode_insert_object_full_at_three(node, ref, objs) ==
    IF node = Overflowed \/ node.depth > StackLimit
    THEN Overflowed
    ELSE IF ~is_none(node.objects)
    THEN IF Len(unwrap(node.objects)) = MAX_OBJECTS_PER_NODE - 1
         THEN switch_object_to_leaves(node, ref, objs)
         ELSE [node EXCEPT !.objects = Some(Append(unwrap(node.objects), ref))]
    ELSE LET grid_index == assign_object_to_grid(node.surface, objs[ref])
             into(i) ==
                 IF contains(grid_index, i)
                 THEN TreeNode_insert_object(unwrap(node.leaves[i + 1]), ref, objs)
                 ELSE unwrap(node.leaves[i + 1])
             leaf0 == into(0)
             leaf1 == into(1)
             leaf2 == into(2)
             leaf3 == into(3)
         IN  IF leaf0 = Overflowed \/ leaf1 = Overflowed
                \/ leaf2 = Overflowed \/ leaf3 = Overflowed
             THEN Overflowed
             ELSE [node EXCEPT !.leaves = <<Some(leaf0), Some(leaf1), Some(leaf2), Some(leaf3)>>]

\* A node past the stack limit is never entered: the call that would enter
\* it overflows the stack, and so does every call waiting for that one.
TreeNode_insert_object(node, ref, objs) ==
    IF node = Overflowed \/ node.depth > StackLimit
    THEN Overflowed
    ELSE IF ~is_none(node.objects)
    THEN IF Len(unwrap(node.objects)) = MAX_OBJECTS_PER_NODE
         THEN switch_object_to_leaves(node, ref, objs)
         ELSE [node EXCEPT !.objects = Some(Append(unwrap(node.objects), ref))]
    ELSE LET grid_index == assign_object_to_grid(node.surface, objs[ref])
             into(i) ==
                 IF contains(grid_index, i)
                 THEN TreeNode_insert_object(unwrap(node.leaves[i + 1]), ref, objs)
                 ELSE unwrap(node.leaves[i + 1])
             leaf0 == into(0)
             leaf1 == into(1)
             leaf2 == into(2)
             leaf3 == into(3)
         IN  IF leaf0 = Overflowed \/ leaf1 = Overflowed
                \/ leaf2 = Overflowed \/ leaf3 = Overflowed
             THEN Overflowed
             ELSE [node EXCEPT !.leaves = <<Some(leaf0), Some(leaf1), Some(leaf2), Some(leaf3)>>]

\* ------------------------------------------------------------------------
\* QuadTree
\* ------------------------------------------------------------------------
QuadTree_new(x0, y0, width, height) ==
    LET surface == [x0 |-> x0, y0 |-> y0, x1 |-> x0 + width, y1 |-> y0 + height]
    IN  [top_left |-> TreeNode_new(1, surface.x0, surface.y0, mx(surface) - 1, my(surface) - 1),
         top_right |-> TreeNode_new(1, mx(surface), surface.y0, surface.x1, my(surface) - 1),
         bottom_left |-> TreeNode_new(1, surface.x0, my(surface), mx(surface) - 1, surface.y1),
         bottom_right |-> TreeNode_new(1, mx(surface), my(surface), surface.x1, surface.y1),
         surface |-> surface]

\* clear() that forgets to replace the bottom-right quadrant.
QuadTree_clear_keeping_bottom_right(qt) ==
    LET s == qt.surface
    IN  [top_left |-> TreeNode_new(1, s.x0, s.y0, mx(s) - 1, my(s) - 1),
         top_right |-> TreeNode_new(1, mx(s), s.y0, s.x1, my(s) - 1),
         bottom_left |-> TreeNode_new(1, s.x0, my(s), mx(s), s.y1),
         bottom_right |-> qt.bottom_right,
         surface |-> s]

\* clear() that forgets to replace the top-left quadrant.
QuadTree_clear_keeping_top_left(qt) ==
    LET s == qt.surface
    IN  [top_left |-> qt.top_left,
         top_right |-> TreeNode_new(1, mx(s), s.y0, s.x1, my(s) - 1),
         bottom_left |-> TreeNode_new(1, s.x0, my(s), mx(s), s.y1),
         bottom_right |-> TreeNode_new(1, mx(s), my(s), s.x1, s.y1),
         surface |-> s]

\* QuadTree::clear replaces the four quadrants; the bottom-left one gets the
\* far edge mx, not mx - 1.  (The TreeNode::clear calls before it act on the
\* nodes that are dropped here.)
QuadTree_clear(qt) ==
    LET s == qt.surface
    IN  [top_left |-> TreeNode_new(1, s.x0, s.y0, mx(s) - 1, my(s) - 1),
         top_right |-> TreeNode_new(1, mx(s), s.y0, s.x1, my(s) - 1),
         bottom_left |-> TreeNode_new(1, s.x0, my(s), mx(s), s.y1),
         bottom_right |-> TreeNode_new(1, mx(s), my(s), s.x1, s.y1),
         surface |-> s]

\* The four quadrants in the order the source visits them.
quadrants(qt) == <<qt.top_left, qt.top_right, qt.bottom_left, qt.bottom_right>>

QuadTree_insert_object(qt, ref, objs) ==
    LET grid_index == assign_object_to_grid(qt.surface, objs[ref])
        into(node, i) ==
            IF contains(grid_index, i)
            THEN TreeNode_insert_object(node, ref, objs)
            ELSE node
    IN  [top_left |-> into(qt.top_left, 0),
         top_right |-> into(qt.top_right, 1),
         bottom_left |-> into(qt.bottom_left, 2),
         bottom_right |-> into(qt.bottom_right, 3),
         surface |-> qt.surface]

\* The insertion ran out of stack.
overflowed(qt) == \E i \in 1..4 : quadrants(qt)[i] = Overflowed

\* ------------------------------------------------------------------------
\* Stats functions
\* ------------------------------------------------------------------------
RECURSIVE TreeNode_node_count(_)
TreeNode_node_count(node) ==
    IF ~is_none(node.objects)
    THEN 1
    ELSE TreeNode_node_count(unwrap(node.leaves[1]))
         + TreeNode_node_count(unwrap(node.leaves[2]))
         + TreeNode_node_count(unwrap(node.leaves[3]))
         + TreeNode_node_count(unwrap(node.leaves[4])) + 1

RECURSIVE TreeNode_deepest_node(_)
TreeNode_deepest_node(node) ==
    IF ~is_none(node.objects)
    THEN node.depth
    ELSE max(max(TreeNode_deepest_node(unwrap(node.leaves[1])),
                 TreeNode_deepest_node(unwrap(node.leaves[2]))),
             max(TreeNode_deepest_node(unwrap(node.leaves[3])),
                 TreeNode_deepest_node(unwrap(node.leaves[4]))))

RECURSIVE TreeNode_object_count(_)
TreeNode_object_count(node) ==
    IF ~is_none(node.objects)
    THEN Len(unwrap(node.objects))
    ELSE TreeNode_object_count(unwrap(node.leaves[1]))
         + TreeNode_object_count(unwrap(node.leaves[2]))
         + TreeNode_object_count(unwrap(node.leaves[3]))
         + TreeNode_object_count(unwrap(node.leaves[4]))

node_count(qt) ==
    TreeNode_node_count(qt.top_left) + TreeNode_node_count(qt.top_right)
    + TreeNode_node_count(qt.bottom_left) + TreeNode_node_count(qt.bottom_right)

deepest_node(qt) ==
    max(max(TreeNode_deepest_node(qt.top_left), TreeNode_deepest_node(qt.top_right)),
        max(TreeNode_deepest_node(qt.bottom_left), TreeNode_deepest_node(qt.bottom_right)))

object_count(qt) ==
    TreeNode_object_count(qt.top_left) + TreeNode_object_count(qt.top_right)
    + TreeNode_object_count(qt.bottom_left) + TreeNode_object_count(qt.bottom_right)

\* The three numbers QuadTree::draw writes on the screen.
draw_stats(qt) ==
    [node_count |-> node_count(qt), deepest_node |-> deepest_node(qt),
     object_count |-> object_count(qt)]

\* ------------------------------------------------------------------------
\* Queries
\* ------------------------------------------------------------------------
\* TreeNode::query_surface: a leaf filters its bucket by the object's own
\* overlap predicate; a node with leaves asks every one of them.
RECURSIVE query_surface(_, _, _)
query_surface(node, query, objs) ==
    IF ~is_none(node.objects)
    THEN SelectSeq(unwrap(node.objects), LAMBDA ref : is_rect_overlap(query, objs[ref]))
    ELSE query_surface(unwrap(node.leaves[1]), query, objs)
         \o query_surface(unwrap(node.leaves[2]), query, objs)
         \o query_surface(unwrap(node.leaves[3]), query, objs)
         \o query_surface(unwrap(node.leaves[4]), query, objs)

\* QuadTree::query_objects_in: a quadrant is asked only if the query
\* rectangle overlaps its surface (Rectangle::is_overlap, open intervals).
query_objects_in(qt, query, objs) ==
    LET from(node) ==
            IF Rectangle_is_overlap(query, node.surface)
            THEN query_surface(node, query, objs)
            ELSE <<>>
    IN  from(qt.top_left) \o from(qt.top_right)
        \o from(qt.bottom_left) \o from(qt.bottom_right)

\* The surfaces of the leaves whose bucket TreeNode::query_surface reads, in
\* the order it reads them.
RECURSIVE buckets_read_by_query_surface(_)
buckets_read_by_query_surface(node) ==
    IF ~is_none(node.objects)
    THEN <<node.surface>>
    ELSE buckets_read_by_query_surface(unwrap(node.leaves[1]))
         \o buckets_read_by_query_surface(unwrap(node.leaves[2]))
         \o buckets_read_by_query_surface(unwrap(node.leaves[3]))
         \o buckets_read_by_query_surface(unwrap(node.leaves[4]))

\* The same for QuadTree::query_objects_in.
buckets_read_by_query_objects_in(qt, query) ==
    LET from(node) ==
            IF Rectangle_is_overlap(query, node.surface)
            THEN buckets_read_by_query_surface(node)
            ELSE <<>>
    IN  from(qt.top_left) \o from(qt.top_right)
        \o from(qt.bottom_left) \o from(qt.bottom_right)

\* Squared distance between the centers of two objects.
center_distance2(a, b) ==
    LET ca == center(a)
        cb == center(b)
    IN  (ca[1] - cb[1]) * (ca[1] - cb[1]) + (ca[2] - cb[2]) * (ca[2] - cb[2])

\* QuadTree::query_neighbours_and_condition(object, Some(radius)): the
\* region query over the square of half-side radius around the object's
\* center, kept to the objects within the radius, the object itself removed.
query_neighbours_and_condition(qt, ref, radius, objs) ==
    LET c == center(objs[ref])
        region == Rectangle_new(Len(objs), c[1] - radius, c[2] - radius,
                                2 * radius, 2 * radius)
    IN  SelectSeq(query_objects_in(qt, region, objs),
                  LAMBDA r : /\ objs[r].id # objs[ref].id
                             /\ center_distance2(objs[r], objs[ref]) <= radius * radius)

\* ------------------------------------------------------------------------
\* Inputs
\* ------------------------------------------------------------------------
\* The outer region (0,0)-(100,100) and the five agents of the concrete
\* scenario, in the order they are inserted.
ScenarioRegion == <<0, 0, 100, 100>>
ScenarioAgents ==
    <<<<10, 10>>, <<10, 20>>, <<10, 30>>, <<10, 40>>, <<90, 90>>>>

\* The outer regions an index is built over: the one of main(), one large
\* enough for a terminating insertion to pass depth 10, and the scenario's.
OuterRegions == {<<25, 25, 500, 500>>, <<0, 0, 4096, 4096>>, ScenarioRegion}

\* The shapes a new object is drawn from, placed relative to the outer
\* region s: two agents in its first corner, a circle on its midpoint, a
\* unit rectangle and an agent on the midline's low side, an agent
\* NEIGHBOUR_RADIUS to the right of that one, a rectangle in the first corner.
Shape(k, id, s) ==
    CASE k = 1 -> Boid_new(id, s.x0, s.y0, 0)
      [] k = 2 -> Boid_new(id, s.x0 + 1, s.y0, 0)
      [] k = 3 -> Circle_new(id, mx(s), my(s), 2)
      [] k = 4 -> Rectangle_new(id, mx(s) - 1, s.y0, 1, 1)
      [] k = 5 -> Boid_new(id, mx(s) - 1, s.y0, 0)
      [] k = 6 -> Boid_new(id, mx(s) - 1 + NEIGHBOUR_RADIUS, s.y0, 0)
      [] k = 7 -> Rectangle_new(id, s.x0 + 1, s.y0 + 1, 3, 2)

ShapeKinds == 1..7

\* Objects are created in the order of their shapes, so that a collection
\* is told by how many objects of each shape it holds: shape k may follow
\* objects objs whose last shape is at most k.
MayFollow(k, objs, s) ==
    IF objs = <<>>
    THEN TRUE
    ELSE \E j \in ShapeKinds :
             j <= k /\ objs[Len(objs)] = Shape(j, Len(objs) - 1, s)

\* The objects the next push may create: over the scenario's region the
\* scenario's next agent, elsewhere a shape that may follow.
NewObjects(objs, s) ==
    IF outer = ScenarioRegion
    THEN {Boid_new(Len(objs), ScenarioAgents[k][1], ScenarioAgents[k][2], 0) :
              k \in {j \in 1..Len(ScenarioAgents) : j = Len(objs) + 1}}
    ELSE {Shape(k, Len(objs), s) : k \in {j \in ShapeKinds : MayFollow(j, objs, s)}}

\* The rectangles a region query is made with: the outer bound, a box whose
\* left edge is the midline's low side, a box in the first corner, a box
\* inside the bottom-right quadrant.
QueryRects(id, s) ==
    {Rectangle_new(id, s.x0, s.y0, s.x1 - s.x0, s.y1 - s.y0),
     Rectangle_new(id, mx(s) - 1, s.y0, 6, 6),
     Rectangle_new(id, s.x0, s.y0, 5, 5),
     Rectangle_new(id, mx(s) + 10, my(s) + 10, 10, 10)}

\* ------------------------------------------------------------------------
\* The state machine
\* ------------------------------------------------------------------------
NoReturn == [op |-> "none"]

\* main(): the InputStore the loop starts with.
InputStore_new ==
    [is_selection |-> FALSE, selected |-> None, selected_objects |-> None]

Init ==
    /\ outer \in OuterRegions
    /\ quadtree = QuadTree_new(outer[1], outer[2], outer[3], outer[4])
    /\ object_array = <<>>
    /\ inserted = 0
    /\ cleared = FALSE
    /\ ret = NoReturn
    /\ rebuild_stats = <<>>
    /\ stack_overflow = FALSE
    /\ input_store = InputStore_new
    /\ pc = "none"
    /\ advanced = 0
    /\ operated = 0
    /\ frame = 0

\* A call is made only by a live process that holds no pending result.
Idle == ~stack_overflow /\ ret = NoReturn

\* setup_shapes / handle_input: a new object, its id the collection's length.
PushObject ==
    /\ Idle
    /\ Len(object_array) < MaxObjects
    /\ \E o \in NewObjects(object_array, quadtree.surface) :
           object_array' = Append(object_array, o)
    /\ rebuild_stats' = <<>>
    /\ UNCHANGED <<outer, quadtree, inserted, cleared, ret, stack_overflow>>
    /\ UNCHANGED loop_vars

\* quadtree.clear()
Clear ==
    /\ Idle
    /\ quadtree' = QuadTree_clear(quadtree)
    /\ inserted' = 0
    /\ cleared' = TRUE
    /\ UNCHANGED <<outer, object_array, ret, rebuild_stats, stack_overflow>>
    /\ UNCHANGED loop_vars

\* The statistics of a finished rebuild, the last two kept.
logged(stats, s) ==
    IF Len(stats) < 2 THEN Append(stats, s) ELSE <<stats[2], s>>

\* quadtree.insert_object(Rc::clone(object)) for the next object of the
\* collection, as the loop of update() does.
InsertObject ==
    /\ Idle
    /\ inserted < Len(object_array)
    /\ LET qt == QuadTree_insert_object(quadtree, inserted + 1, object_array)
       IN  IF overflowed(qt)
           THEN /\ stack_overflow' = TRUE
                /\ UNCHANGED <<quadtree, inserted, rebuild_stats>>
           ELSE /\ quadtree' = qt
                /\ inserted' = inserted + 1
                /\ rebuild_stats' =
                       IF cleared /\ inserted + 1 = Len(object_array)
                       THEN logged(rebuild_stats, draw_stats(qt))
                       ELSE rebuild_stats
                /\ UNCHANGED stack_overflow
    /\ UNCHANGED <<outer, object_array, cleared, ret>>
    /\ UNCHANGED loop_vars

\* quadtree.query_objects_in(rect)
QueryObjectsIn ==
    /\ Idle
    /\ \E q \in QueryRects(Len(object_array), quadtree.surface) :
           ret' = [op |-> "query_objects_in", query |-> q,
                   result |-> query_objects_in(quadtree, q, object_array)]
    /\ UNCHANGED <<outer, quadtree, object_array, inserted, cleared, rebuild_stats,
                   stack_overflow>>
    /\ UNCHANGED loop_vars

\* quadtree.query_neighbours_and_condition(object, Some(10))
QueryNeighbours ==
    /\ Idle
    /\ \E ref \in 1..inserted :
           ret' = [op |-> "query_neighbours_and_condition", object |-> ref,
                   result |-> query_neighbours_and_condition(
                                  quadtree, ref, NEIGHBOUR_RADIUS, object_array)]
    /\ UNCHANGED <<outer, quadtree, object_array, inserted, cleared, rebuild_stats,
                   stack_overflow>>
    /\ UNCHANGED loop_vars

\* The caller is done with the returned Vec.
DropResult ==
    /\ ~stack_overflow
    /\ ret # NoReturn
    /\ ret' = NoReturn
    /\ UNCHANGED <<outer, quadtree, object_array, inserted, cleared, rebuild_stats,
                   stack_overflow>>
    /\ UNCHANGED loop_vars

Next ==
    \/ PushObject
    \/ Clear
    \/ InsertObject
    \/ QueryObjectsIn
    \/ QueryNeighbours
    \/ DropResult

Spec == Init /\ [][Next]_vars

\* ------------------------------------------------------------------------
\* The main loop
\* ------------------------------------------------------------------------
\* The collections setup_shapes may leave: none, or a circle near the
\* lower edge of the world.
SetupShapes == {<<>>, <<Circle_new(0, 272, 522, 3)>>}

\* Where the mouse is when the right button adds an agent, and the headings
\* the new agent may get: 0.0 and a quarter turn.
SpawnPoints == {<<270, 524>>, <<274, 520>>}
Facings == {0, QuarterTurn}

\* Where the mouse is when the left button is pressed or held.
MousePoints == {<<260, 20>>, <<280, 40>>}

\* Rectangle::adjust_to_point
adjust_to_point(rect, x, y) ==
    [rect EXCEPT !.x1 = x, !.y1 = y]

\* Rectangle::normalize
normalize(rect) ==
    [rect EXCEPT !.x0 = IF rect.x1 < rect.x0 THEN rect.x1 ELSE rect.x0,
                 !.x1 = IF rect.x1 < rect.x0 THEN rect.x0 ELSE rect.x1,
                 !.y0 = IF rect.y1 < rect.y0 THEN rect.y1 ELSE rect.y0,
                 !.y1 = IF rect.y1 < rect.y0 THEN rect.y0 ELSE rect.y1]

\* The states of the left button handle_input can see: held or released
\* while a selection is being made, pressed or untouched otherwise.
LeftButton(store) ==
    IF store.is_selection THEN {"down", "released"} ELSE {"none", "pressed"}

\* handle_input, the quadtree part: the selection rectangle follows the
\* mouse at point while the left button is down, is normalized when the
\* button is released, and is made anew at point when it is pressed.
handle_selection(store, button, point, len) ==
    LET held ==
            IF button = "down" /\ store.is_selection
            THEN [store EXCEPT !.selected =
                      Some(adjust_to_point(unwrap(store.selected), point[1], point[2]))]
            ELSE store
        released ==
            IF button = "released" /\ held.is_selection
            THEN [held EXCEPT !.is_selection = FALSE,
                              !.selected = Some(normalize(unwrap(held.selected)))]
            ELSE held
    IN  IF button = "pressed" /\ ~released.is_selection
        THEN [released EXCEPT !.is_selection = TRUE,
                              !.selected = Some(Rectangle_new(len, point[1], point[2], 0, 0))]
        ELSE released

\* The collection after the neighbours found for an object were told, one
\* after the other, to update_movement toward that object.
RECURSIVE told_to_update_movement(_, _, _)
told_to_update_movement(objs, query, object) ==
    IF query = <<>>
    THEN objs
    ELSE LET before == told_to_update_movement(
                           objs, SubSeq(query, 1, Len(query) - 1), object)
             query_object == query[Len(query)]
         IN  [before EXCEPT ![query_object] =
                  update_movement(before[query_object], before[object])]

FrameInit ==
    /\ outer = <<25, 25, 500, 500>>
    /\ quadtree = QuadTree_new(outer[1], outer[2], outer[3], outer[4])
    /\ object_array \in SetupShapes
    /\ inserted = 0
    /\ cleared = FALSE
    /\ ret = NoReturn
    /\ rebuild_stats = <<>>
    /\ stack_overflow = FALSE
    /\ input_store = InputStore_new
    /\ pc = "handle_input"
    /\ advanced = 0
    /\ operated = 0
    /\ frame = 0

\* handle_input: the right button may add an agent at the mouse; then the
\* left button acts on the selection.
HandleInput ==
    /\ ~stack_overflow
    /\ pc = "handle_input"
    /\ frame < MaxFrames
    /\ \E added \in {<<>>} \cup {<<Boid_new(Len(object_array), p[1], p[2], f)>> :
                                     p \in SpawnPoints, f \in Facings} :
           /\ object_array' = object_array \o added
           /\ \E button \in LeftButton(input_store), point \in MousePoints :
                  input_store' = handle_selection(input_store, button, point,
                                                  Len(object_array'))
    /\ pc' = "clear"
    /\ UNCHANGED <<outer, quadtree, inserted, cleared, ret, rebuild_stats,
                   stack_overflow, advanced, operated, frame>>

\* update(): quadtree.clear()
FrameClear ==
    /\ ~stack_overflow
    /\ pc = "clear"
    /\ quadtree' = QuadTree_clear(quadtree)
    /\ inserted' = 0
    /\ cleared' = TRUE
    /\ advanced' = 0
    /\ operated' = 0
    /\ pc' = IF object_array = <<>> THEN "query" ELSE "insert_object"
    /\ UNCHANGED <<outer, object_array, ret, rebuild_stats, stack_overflow,
                   input_store, frame>>

\* update(), first loop: quadtree.insert_object(Rc::clone(object))
FrameInsertObject ==
    /\ ~stack_overflow
    /\ pc = "insert_object"
    /\ LET qt == QuadTree_insert_object(quadtree, inserted + 1, object_array)
       IN  IF overflowed(qt)
           THEN /\ stack_overflow' = TRUE
                /\ UNCHANGED <<quadtree, inserted, pc>>
           ELSE /\ quadtree' = qt
                /\ inserted' = inserted + 1
                /\ pc' = "update"
                /\ UNCHANGED stack_overflow
    /\ UNCHANGED <<outer, object_array, cleared, ret, rebuild_stats, input_store,
                   advanced, operated, frame>>

\* update(), first loop: object.borrow_mut().update() for the object just
\* inserted; after the last object the operation loop follows.
FrameUpdate ==
    /\ ~stack_overflow
    /\ pc = "update"
    /\ object_array' = [object_array EXCEPT ![inserted] = update(object_array[inserted])]
    /\ advanced' = advanced + 1
    /\ pc' = IF inserted = Len(object_array) THEN "operation" ELSE "insert_object"
    /\ UNCHANGED <<outer, quadtree, inserted, cleared, ret, rebuild_stats,
                   stack_overflow, input_store, operated, frame>>

\* update(), operation loop, one object: its neighbours are queried, and
\* every object of the result is told to update_movement toward it.
FrameOperation ==
    /\ ~stack_overflow
    /\ pc = "operation"
    /\ LET object == operated + 1
           query == query_neighbours_and_condition(
                        quadtree, object, NEIGHBOUR_RADIUS, object_array)
       IN  object_array' = told_to_update_movement(object_array, query, object)
    /\ operated' = operated + 1
    /\ pc' = IF operated + 1 = Len(object_array) THEN "query" ELSE "operation"
    /\ UNCHANGED <<outer, quadtree, inserted, cleared, ret, rebuild_stats,
                   stack_overflow, input_store, advanced, frame>>

\* update(), the query for the selection, if there is one; the frame ends.
FrameQuery ==
    /\ ~stack_overflow
    /\ pc = "query"
    /\ input_store' =
           IF is_none(input_store.selected)
           THEN input_store
           ELSE [input_store EXCEPT !.selected_objects =
                     Some(query_objects_in(quadtree, unwrap(input_store.selected),
                                           object_array))]
    /\ frame' = frame + 1
    /\ pc' = "handle_input"
    /\ UNCHANGED <<outer, quadtree, object_array, inserted, cleared, ret,
                   rebuild_stats, stack_overflow, advanced, operated>>

FrameNext ==
    \/ HandleInput
    \/ FrameClear
    \/ FrameInsertObject
    \/ FrameUpdate
    \/ FrameOperation
    \/ FrameQuery

FrameSpec == FrameInit /\ [][FrameNext]_vars

\* ------------------------------------------------------------------------
\* What the claims speak of
\* ------------------------------------------------------------------------
\* Every node of the tree under node (a broken node's missing leaves are
\* skipped).
RECURSIVE nodes_under(_)
nodes_under(node) ==
    {node} \cup UNION {nodes_under(unwrap(node.leaves[i])) :
                          i \in {j \in 1..4 : ~is_none(node.leaves[j])}}

all_nodes(qt) ==
    nodes_under(qt.top_left) \cup nodes_under(qt.top_right)
    \cup nodes_under(qt.bottom_left) \cup nodes_under(qt.bottom_right)

\* The refs of the objects inserted since the index was last emptied.
Indexed == 1..inserted

range(seq) == {seq[k] : k \in 1..Len(seq)}
occurrences(seq, v) == Cardinality({k \in 1..Len(seq) : seq[k] = v})

\* The surface QuadTree::new makes of its arguments.
OuterSurface == from_size(outer[1], outer[2], outer[1] + outer[3], outer[2] + outer[4])

\* Surface a lies within surface b, edges included.
surface_within(a, b) ==
    /\ b.x0 <= a.x0 /\ a.x1 <= b.x1
    /\ b.y0 <= a.y0 /\ a.y1 <= b.y1

\* The shape of o lies within surface, edges included.
lies_within(o, surface) ==
    CASE o.kind = "Boid" -> Boid_is_overlap(o, surface)
      [] o.kind = "Rectangle" -> surface_within(to_tree_surface(o), surface)
      [] o.kind = "Circle" ->
             /\ surface.x0 <= o.x - o.radius /\ o.x + o.radius <= surface.x1
             /\ surface.y0 <= o.y - o.radius /\ o.y + o.radius <= surface.y1

IsRegionQuery == ret.op = "query_objects_in"
IsNeighbourQuery == ret.op = "query_neighbours_and_condition"
AfterClear == cleared /\ inserted = 0

HasBucket(node) == ~is_none(node.objects)
NoLeaves(node) == \A i \in 1..4 : is_none(node.leaves[i])
FourLeaves(node) == \A i \in 1..4 : ~is_none(node.leaves[i])

\* The refs held by the buckets under node.
RECURSIVE refs_in(_)
refs_in(node) ==
    IF HasBucket(node)
    THEN range(unwrap(node.objects))
    ELSE UNION {refs_in(unwrap(node.leaves[i])) :
                   i \in {j \in 1..4 : ~is_none(node.leaves[j])}}

width(surface) == surface.x1 - surface.x0
height(surface) == surface.y1 - surface.y0

InScenario == outer = ScenarioRegion /\ inserted = Len(ScenarioAgents)

\* ------------------------------------------------------------------------
\* The claims
\* ------------------------------------------------------------------------

\* C1: a region query returns, as a set of objects, exactly the inserted
\* objects whose shape overlaps the query rectangle under the object's own
\* overlap predicate: none missed, none extra.
C1_QueryEqualsBruteForce ==
    IsRegionQuery =>
        range(ret.result) =
            {ref \in Indexed : is_rect_overlap(ret.query, object_array[ref])}

\* C2: the result of a region query holds each object at most once, also an
\* object that several leaves refer to.
C2_QueryResultHasNoDuplicates ==
    IsRegionQuery =>
        \A i, j \in 1..Len(ret.result) :
            object_array[ret.result[i]].id = object_array[ret.result[j]].id => i = j

\* C3: a query with the outer bound returns every inserted object whose
\* shape lies within the outer region exactly once.
C3_OuterQueryReturnsEachOnce ==
    (IsRegionQuery /\ to_tree_surface(ret.query) = quadtree.surface) =>
        \A ref \in Indexed :
            lies_within(object_array[ref], quadtree.surface) =>
                occurrences(ret.result, ref) = 1

\* C4: no node is deeper than max_depth = 10, and so deepest_node() is at
\* most 10.
C4_DepthAtMostTen ==
    /\ \A node \in all_nodes(quadtree) : node.depth <= 10
    /\ deepest_node(quadtree) <= 10

\* C5: every call of insert returns; none recurses until the stack is
\* exhausted.
C5_InsertTerminates ==
    ~stack_overflow

\* C6: every node either has a bucket and no leaves, or has four leaves and
\* no bucket.
C6_LeafXorInternal ==
    \A node \in all_nodes(quadtree) :
        \/ HasBucket(node) /\ NoLeaves(node)
        \/ ~HasBucket(node) /\ FourLeaves(node)

\* C6, the case: an index rebuilt after a clear in which a bucket was split.
C6_Witness ==
    /\ cleared
    /\ inserted > MAX_OBJECTS_PER_NODE
    /\ \E node \in all_nodes(quadtree) : FourLeaves(node) /\ node.depth > 1

C8_QueryReadsOnlyOverlappingBuckets ==
    IsRegionQuery =>
        LET read == buckets_read_by_query_objects_in(quadtree, ret.query)
        IN  \A k \in 1..Len(read) : Rectangle_is_overlap(ret.query, read[k])

\* C9: a neighbour query for object O returns exactly the indexed objects
\* other than O whose center is within NEIGHBOUR_RADIUS of O's center.
C9_NeighboursAreThoseWithinRadius ==
    IsNeighbourQuery =>
        range(ret.result) =
            {ref \in Indexed :
                /\ ref # ret.object
                /\ center_distance2(object_array[ref], object_array[ret.object])
                       <= NEIGHBOUR_RADIUS * NEIGHBOUR_RADIUS}

\* C10: two successive rebuilds (clear, then every object inserted in order)
\* of the same unmoved object set give the same node count, object count
\* and deepest node.
C10_RebuildStatsRepeat ==
    Len(rebuild_stats) = 2 => rebuild_stats[1] = rebuild_stats[2]

\* C10, the case: the second rebuild of a set whose insertion splits a
\* bucket is done.
C10_Witness ==
    /\ Len(rebuild_stats) = 2
    /\ inserted = Len(object_array)
    /\ rebuild_stats[2].node_count > 4
    /\ rebuild_stats[2].object_count > MAX_OBJECTS_PER_NODE

C12_NoSplitOfSmallSurface ==
    \A node \in all_nodes(quadtree) :
        /\ FourLeaves(node) =>
               width(node.surface) > 2 /\ height(node.surface) > 2
        /\ width(node.surface) > 0 /\ height(node.surface) > 0

\* The objects routed into node are refs: a bucket then holds exactly refs,
\* and each leaf of a node with leaves is routed the objects of refs that
\* overlap the leaf's surface, and no other.
RECURSIVE routed_by_overlap(_, _)
routed_by_overlap(node, refs) ==
    IF HasBucket(node)
    THEN range(unwrap(node.objects)) = refs
    ELSE \A i \in 1..4 :
             routed_by_overlap(
                 unwrap(node.leaves[i]),
                 {ref \in refs :
                     is_overlap(object_array[ref], unwrap(node.leaves[i]).surface)})

\* C13: an object inserted into a node with leaves, or moved out of a
\* bucket by a split, is inserted into every leaf whose surface it overlaps
\* and into no other leaf.
C13_InsertedIntoEveryOverlappingLeaf ==
    \A i \in 1..4 :
        routed_by_overlap(
            quadrants(quadtree)[i],
            {ref \in Indexed :
                contains(assign_object_to_grid(quadtree.surface, object_array[ref]),
                         i - 1)})

\* C13, the case: an object is referenced from more than one leaf of a node.
C13_Witness ==
    \E node \in all_nodes(quadtree) :
        /\ FourLeaves(node)
        /\ \E i, j \in 1..4 :
               /\ i # j
               /\ refs_in(unwrap(node.leaves[i])) \cap refs_in(unwrap(node.leaves[j])) # {}

\* C17: clear() leaves the index as QuadTree::new makes it for the same
\* outer region: the same four quadrants, surfaces included.
C17_ClearRestoresNew ==
    AfterClear =>
        quadtree = QuadTree_new(outer[1], outer[2], outer[3], outer[4])

\* C18: every object a bucket refers to overlaps the surface of the
\* bucket's node, under the object's own overlap predicate.
C18_BucketedObjectsOverlapTheirLeaf ==
    \A node \in all_nodes(quadtree) :
        HasBucket(node) =>
            \A ref \in range(unwrap(node.objects)) :
                is_overlap(object_array[ref], node.surface)

\* C18, the case: after a clear, buckets below a split and the bucket of the
\* bottom-left quadrant hold objects.
C18_Witness ==
    /\ cleared
    /\ refs_in(quadtree.bottom_left) # {}
    /\ \E node \in all_nodes(quadtree) :
           /\ node.depth > 1
           /\ HasBucket(node)
           /\ unwrap(node.objects) # <<>>

\* update() is at one of its statements after quadtree.clear().
InUpdate == pc \in {"insert_object", "update", "operation", "query"}

\* The frame is done and its selection result published.
FrameDone == pc = "handle_input" /\ frame > 0

\* C14: within a frame every object of the collection has been inserted
\* before the self-advance of any object runs, and every object has been
\* advanced before the first neighbour query is made.
C14_StepsRunInOrder ==
    InUpdate =>
        /\ (pc = "update" \/ advanced > 0) => inserted = Len(object_array)
        /\ (pc = "operation" \/ operated > 0) => advanced = Len(object_array)

\* The object o after its heading was moved toward the heading of each
\* agent of neighbours, one after the other.
RECURSIVE nudged_toward_each(_, _, _)
nudged_toward_each(o, neighbours, objs) ==
    IF neighbours = <<>>
    THEN o
    ELSE update_movement(
             nudged_toward_each(o, SubSeq(neighbours, 1, Len(neighbours) - 1), objs),
             objs[neighbours[Len(neighbours)]])

\* C15: a step of the neighbour influence for the acting object O changes
\* nothing of the collection but O's heading, which is moved toward each
\* agent neighbour's heading by a fifth of the difference, neighbour after
\* neighbour; no neighbour is changed, and an O that is no agent stays as
\* it is.
C15_OnlyActingObjectChanges ==
    [][pc = "operation" =>
          object_array' =
              [object_array EXCEPT ![operated + 1] =
                  nudged_toward_each(
                      object_array[operated + 1],
                      query_neighbours_and_condition(
                          quadtree, operated + 1, NEIGHBOUR_RADIUS, object_array),
                      object_array)]]_vars

\* C16: no coordinate of an agent that was advanced lies on an edge of the
\* bounded world, 25 or 525.
C16_NoAgentRestsOnEdge ==
    \A ref \in 1..advanced :
        object_array[ref].kind = "Boid" =>
            /\ object_array[ref].x \notin {as_f32(WORLD_LOW), as_f32(WORLD_HIGH)}
            /\ object_array[ref].y \notin {as_f32(WORLD_LOW), as_f32(WORLD_HIGH)}

\* C19: at the end of a frame with a selection rectangle, the published
\* selection result is, as a set, the objects of the collection whose shape
\* at its present position overlaps the rectangle.
C19_SelectionMatchesPresentPositions ==
    (FrameDone /\ ~is_none(input_store.selected)) =>
        /\ ~is_none(input_store.selected_objects)
        /\ range(unwrap(input_store.selected_objects)) =
               {ref \in 1..Len(object_array) :
                   is_rect_overlap(unwrap(input_store.selected), object_array[ref])}

====
